---- MODULE Spec2Model ----
(***************************************************************************)
(* Vedic-astro-engine (src/app.py): the Vimshottari dasha timing module.   *)
(*                                                                         *)
(* generate_mahadasha_table (timeline mode) and                            *)
(* generate_current_next_bhukti (point lookup at datetime.now()) as they   *)
(* are run by the report script at lines 898-899.                          *)
(*                                                                         *)
(* Time.  Instants and durations are whole ticks, YearTicks ticks to the   *)
(* 365.25-day year the code uses; the tick is the resolution of datetime   *)
(* and timedelta.  A duration the code holds as a float number of years d  *)
(* and adds as timedelta(days = d * 365.25) is d * YearTicks ticks,        *)
(* rounded half to even as timedelta rounds to its resolution.             *)
(* YearTicks = 14400 * NakSpan makes every sub and sub-sub duration, and   *)
(* every major duration at a balance of k/NakSpan, a whole number of ticks *)
(* (as they are whole numbers of microseconds in the code); a smaller      *)
(* balance is rounded.                                                     *)
(*                                                                         *)
(* Longitude.  moon_lon is held in units of 1/LonRes of the 13.333333333   *)
(* degree nakshatra span the code divides by, so lon / 13.333333333 is     *)
(* moon_lon \div LonRes and (lon % 13.333333333) / 13.333333333 is         *)
(* (moon_lon % LonRes) / LonRes.  The longitudes drawn are the NakSpan     *)
(* equal steps of every nakshatra and the last unit before the next one.   *)
(***************************************************************************)
EXTENDS Integers, Sequences, FiniteSets, TLC

\* Equal steps per nakshatra: the balance takes the values k/NakSpan.
NakSpan == 2
\* Longitude units per step: the smallest balance is 1/(NakSpan * FineRes).
FineRes == 1000000
\* The wall clock is followed for this many years after its first sample.
MaxYears == 281
\* Years from the wall clock's first sample to the birth instant.
BirthAfter == 1
\* Sessions start IdleYears apart.
IdleYears == 25

\* 360 degrees hold 27 spans of 13.333333333 degrees.
NumNakshatras == 27
\* range(20): the cap on major periods walked by the point lookup.
MdCapLonger == 20 + 1

MdCap == 20
\* range(9) / % 9: the number of dasha lords.
NumLords == 9
\* The divisor of the sub and sub-sub duration formulas.
CycleYears == 120
\* The sub-sub formula divides by 120 twice.
SubSubDen == CycleYears * CycleYears

YearTicks == SubSubDen * NakSpan

\* Longitude units in the span 13.333333333.
LonRes == NakSpan * FineRes

\* database.DASHA_ORDER and database.DASHA_YEARS (imported at lines 20-23).
DASHA_ORDER ==
    <<"Ketu", "Venus", "Sun", "Moon", "Mars", "Rahu", "Jupiter", "Saturn", "Mercury">>

DASHA_YEARS ==
    [Ketu |-> 7, Venus |-> 20, Sun |-> 6, Moon |-> 10, Mars |-> 7,
     Rahu |-> 18, Jupiter |-> 16, Saturn |-> 19, Mercury |-> 17]

\* DASHA_ORDER[i % 9], Python's 0-based indexing.

\* The index taken as 1-based.
LordOneBased(i) == DASHA_ORDER[((i + NumLords - 1) % NumLords) + 1]

Lord(i) == DASHA_ORDER[(i % NumLords) + 1]

\* DASHA_ORDER.index(lord), 0-based.

\* Every nested walk begun at the head of DASHA_ORDER.
IndexOfHead(lord) == 0

IndexOf(lord) == (CHOOSE i \in 1..NumLords : DASHA_ORDER[i] = lord) - 1

\* nak_idx = int(moon_lon / 13.333333333)
NakIdx(lon) == lon \div LonRes

\* bal = 1 - ((moon_lon % 13.333333333) / 13.333333333), as a numerator over
\* LonRes; bal = 1 is LonRes.

Bal(lon) == LonRes - (lon % LonRes)

\* In every nakshatra: its NakSpan steps, and the last longitude below the
\* next nakshatra (balance 1/LonRes).
MoonLons ==
    {n * LonRes + k * FineRes : n \in 0..(NumNakshatras - 1), k \in 0..(NakSpan - 1)}
        \cup {n * LonRes + LonRes - 1 : n \in 0..(NumNakshatras - 1)}

\* timedelta(...) keeps whole ticks: n / d rounded half to even.
RoundHalfEven(n, d) ==
    LET q == n \div d
        r == n % d
    IN  IF 2 * r < d THEN q
        ELSE IF 2 * r > d THEN q + 1
        ELSE IF q % 2 = 0 THEN q ELSE q + 1

\* timedelta(days = years * bal * 365.25) for a whole number of years, in
\* ticks: ticks * bal / LonRes, rounded.  The steps of bal divide `ticks`
\* evenly, only the units below a step are rounded (and multiplied apart,
\* within 32-bit integers).
ScaleByBal(ticks, bal) ==
    (ticks \div NakSpan) * (bal \div FineRes)
        + RoundHalfEven(ticks * (bal % FineRes), LonRes)

VARIABLES moon_lon, birth_date, now, pc, mahadasha_data, bhukti, exception,
          report_generated, messages, GEMINI_API_KEY, ui_error, trigger,
          fn_call, fn_return, search_date, step

\* The report script's inputs, position and locals.
reportvars == <<moon_lon, birth_date, now, pc, mahadasha_data, bhukti, exception>>

\* st.session_state, the API key, the last st.error of the chat handler and
\* the widget that started the last run.
sessionvars == <<report_generated, messages, GEMINI_API_KEY, ui_error, trigger>>

\* A call of one of the helper functions: its arguments with the outcome of
\* the external service it uses, its return value, and the locals of its
\* loop.
callvars == <<fn_call, fn_return, search_date, step>>

vars == <<reportvars, sessionvars, callvars>>

(***************************************************************************)
(* generate_mahadasha_table (lines 489-528): the 9 major periods from      *)
(* birth.  A row keeps the unit and the two datetimes (curr_date,          *)
(* end_date) its age and year strings are formatted from.                  *)
(***************************************************************************)

\* Datetimes are read on the calendar with the birth instant standing for 
\* 2000-01-01 00:00.                                                    

\* A span of ticks in quarter days: a year is 365.25 days, 1461 quarters.
QuarterDays(ticks) ==
    (ticks \div YearTicks) * 1461 + ((ticks % YearTicks) * 1461) \div YearTicks

\* The leap years before `year`: every 4th year, but of the century years
\* only every 4th.
LeapsBefore(year) ==
    (year - 1) \div 4 - (year - 1) \div 100 + (year - 1) \div 400

\* The days from January 1st of year `a` to January 1st of year `b`.
DaysFrom(a, b) == 365 * (b - a) + LeapsBefore(b) - LeapsBefore(a)

\* The calendar year `days` after January 1st of `year`: the estimate of
\* 366 days a year falls short by at most 2 years in 3 centuries.
YearAfter(days, year) ==
    LET g == year + days \div 366
    IN  IF days < DaysFrom(year, g + 1) THEN g
        ELSE IF days < DaysFrom(year, g + 2) THEN g + 1
        ELSE g + 2

\* The calendar year and the day in it (0 = January 1st), `days` after
\* January 1st of `year`.
DateAfter(days, year) ==
    [year |-> YearAfter(days, year),
     yday |-> days - DaysFrom(year, YearAfter(days, year))]

\* int((d - birth_date).days / 365.25)
AgeAt(d, birth) == (4 * (QuarterDays(d - birth) \div 4)) \div 1461

\* d.year
YearAt(d, birth) == YearAfter(QuarterDays(d - birth) \div 4, 2000)

\* first_end = curr_date + timedelta(days=DASHA_YEARS[first_lord] * bal * 365.25)

\* The balance left out: the first period at its full length.
FirstEndFull(first_lord, bal, curr_date) ==
    curr_date + DASHA_YEARS[first_lord] * YearTicks

FirstEnd(first_lord, bal, curr_date) ==
    curr_date + ScaleByBal(DASHA_YEARS[first_lord] * YearTicks, bal)

\* end_date = curr_date + timedelta(days=DASHA_YEARS[lord] * 365.25)

\* A year of 365 days in place of 365.25.
RowEnd365(lord, curr_date) ==
    curr_date + (DASHA_YEARS[lord] * YearTicks * 1460) \div 1461

RowEnd(lord, curr_date) ==
    curr_date + DASHA_YEARS[lord] * YearTicks

\* {"Age (From-To)": f"{age_from} - {age_to}", "Years": f"{curr_date.year} -
\* {end_date.year}", "Mahadasha": lord}, with the two datetimes kept.
Row(lord, age_from, curr_date, end_date, birth) ==
    [Mahadasha |-> lord, curr_date |-> curr_date, end_date |-> end_date,
     age_from |-> age_from, age_to |-> AgeAt(end_date, birth),
     year_from |-> YearAt(curr_date, birth), year_to |-> YearAt(end_date, birth)]

\* The loop without "curr_date = end_date": every row starts where the
\* first one ends.
RECURSIVE TableLoopNoAdvance(_, _, _, _, _)
TableLoopNoAdvance(nak_idx, i, curr_date, timeline, birth) ==
    IF i >= NumLords THEN timeline
    ELSE LET lord == Lord(nak_idx + i)
             end_date == RowEnd(lord, curr_date)
         IN  TableLoopNoAdvance(nak_idx, i + 1, curr_date,
                 Append(timeline, Row(lord, AgeAt(curr_date, birth),
                                      curr_date, end_date, birth)), birth)

\* for i in range(1, 9): ... timeline.append(...); curr_date = end_date
RECURSIVE TableLoop(_, _, _, _, _)
TableLoop(nak_idx, i, curr_date, timeline, birth) ==
    IF i >= NumLords THEN timeline
    ELSE LET lord == Lord(nak_idx + i)
             end_date == RowEnd(lord, curr_date)
         IN  TableLoop(nak_idx, i + 1, end_date,
                 Append(timeline, Row(lord, AgeAt(curr_date, birth),
                                      curr_date, end_date, birth)), birth)

generate_mahadasha_table(lon, birth) ==
    LET nak_idx == NakIdx(lon)
        bal == Bal(lon)
        first_lord == Lord(nak_idx)
        first_end == FirstEnd(first_lord, bal, birth)
    IN  TableLoop(nak_idx, 1, first_end,
                  <<Row(first_lord, 0, birth, first_end, birth)>>, birth)

(***************************************************************************)
(* generate_current_next_bhukti (lines 566-612): the three nested walks.   *)
(***************************************************************************)

\* md_dur = DASHA_YEARS[md_lord] * bal if curr_md_start == birth_date
\*          else DASHA_YEARS[md_lord]

\* The balance at birth left out.
MdDurNoBalance(md_lord, bal, curr_md_start, birth) ==
    DASHA_YEARS[md_lord] * YearTicks

MdDur(md_lord, bal, curr_md_start, birth) ==
    IF curr_md_start = birth
    THEN ScaleByBal(DASHA_YEARS[md_lord] * YearTicks, bal)
    ELSE DASHA_YEARS[md_lord] * YearTicks

\* ad_dur = (DASHA_YEARS[md_lord] * DASHA_YEARS[ad_lord]) / 120

\* The product divided by 100, as if the weights summed to 100.
AdDurPerCent(md_lord, ad_lord) ==
    (DASHA_YEARS[md_lord] * YearTicks * DASHA_YEARS[ad_lord]) \div 100

AdDur(md_lord, ad_lord) ==
    (DASHA_YEARS[md_lord] * YearTicks * DASHA_YEARS[ad_lord]) \div CycleYears

\* pd_dur = (ad_dur * DASHA_YEARS[pd_lord]) / 120

PdDur(ad_dur, pd_lord) ==
    (ad_dur * DASHA_YEARS[pd_lord]) \div CycleYears

\* if start <= current_date <= end  (the test of all three levels)

\* The end instant left out of the period.
InPeriodHalfOpen(start, current_date, end) ==
    start <= current_date /\ current_date < end

InPeriod(start, current_date, end) ==
    start <= current_date /\ current_date <= end

Period(lord, dur, start) ==
    [lord |-> lord, dur |-> dur, start |-> start, end |-> start + dur]

\* The 9 sub periods the loop "for i in range(9)" computes inside the major
\* period of md_lord that starts at curr_md_start: ad_start = curr_md_start,
\* then ad_start = ad_end after each.
RECURSIVE AdPeriods(_, _, _, _)
AdPeriods(md_lord, ad_idx, i, ad_start) ==
    IF i >= NumLords THEN <<>>
    ELSE LET ad_lord == Lord(ad_idx + i)
             p == Period(ad_lord, AdDur(md_lord, ad_lord), ad_start)
         IN  <<p>> \o AdPeriods(md_lord, ad_idx, i + 1, p.end)

\* The 9 sub-sub periods the loop "for j in range(9)" computes inside the sub
\* period of ad_lord: pd_start = ad_start, then pd_start = pd_end after each.
RECURSIVE PdPeriods(_, _, _, _)
PdPeriods(ad_dur, pd_idx, j, pd_start) ==
    IF j >= NumLords THEN <<>>
    ELSE LET pd_lord == Lord(pd_idx + j)
             p == Period(pd_lord, PdDur(ad_dur, pd_lord), pd_start)
         IN  <<p>> \o PdPeriods(ad_dur, pd_idx, j + 1, p.end)

NoMatch == [found |-> FALSE]

\* for j in range(9): the first sub-sub period holding current_date.
RECURSIVE PdLoop(_, _, _)
PdLoop(current_date, pds, j) ==
    IF j >= NumLords THEN NoMatch
    ELSE LET pd == pds[j + 1]
         IN  IF InPeriod(pd.start, current_date, pd.end)
             THEN [found |-> TRUE, j |-> j, pd |-> pd]
             ELSE PdLoop(current_date, pds, j + 1)

\* for i in range(9): the first sub period holding current_date whose
\* sub-sub walk returns; a sub period whose walk finds nothing is passed over.
RECURSIVE AdLoop(_, _, _, _)
AdLoop(current_date, ad_idx, ads, i) ==
    IF i >= NumLords THEN NoMatch
    ELSE LET ad == ads[i + 1]
             inner == IF InPeriod(ad.start, current_date, ad.end)
                      THEN PdLoop(current_date,
                                  PdPeriods(ad.dur, IndexOf(ad.lord), 0, ad.start), 0)
                      ELSE NoMatch
         IN  IF inner.found
             THEN [found |-> TRUE, i |-> i, ad |-> ad, j |-> inner.j, pd |-> inner.pd,
                   next_ad |-> Lord(ad_idx + i + 1)]
             ELSE AdLoop(current_date, ad_idx, ads, i + 1)

\* for _ in range(20): the return value and the locals at the return
\* statement, or ret = "None" when the loop runs out (the function then ends
\* without a return statement); k counts the major periods walked.
RECURSIVE MdLoop(_, _, _, _, _, _)
MdLoop(current_date, birth, k, md_idx, curr_md_start, bal) ==
    IF k >= MdCap THEN [ret |-> "None", current_date |-> current_date, k |-> k]
    ELSE LET md_lord == Lord(md_idx)
             md_dur == MdDur(md_lord, bal, curr_md_start, birth)
             md_end == curr_md_start + md_dur
             ad_idx == IndexOf(md_lord)
             inner == IF InPeriod(curr_md_start, current_date, md_end)
                      THEN AdLoop(current_date, ad_idx,
                                  AdPeriods(md_lord, ad_idx, 0, curr_md_start), 0)
                      ELSE NoMatch
         IN  IF inner.found
             THEN [ret |-> "tuple", current_date |-> current_date,
                   MD |-> md_lord, AD |-> inner.ad.lord, PD |-> inner.pd.lord,
                   next_ad |-> inner.next_ad,
                   k |-> k, i |-> inner.i, j |-> inner.j,
                   curr_md_start |-> curr_md_start, md_dur |-> md_dur, md_end |-> md_end,
                   ad_start |-> inner.ad.start, ad_dur |-> inner.ad.dur,
                   ad_end |-> inner.ad.end,
                   pd_start |-> inner.pd.start, pd_end |-> inner.pd.end]
             ELSE MdLoop(current_date, birth, k + 1, md_idx + 1, md_end, LonRes)

\* The walk started at the head of DASHA_ORDER whatever the longitude.
bhukti_from_first_unit(lon, birth, clock) ==
    MdLoop(clock, birth, 0, 0, birth, Bal(lon))

\* current_date = datetime.now() is the argument `clock`.
generate_current_next_bhukti(lon, birth, clock) ==
    MdLoop(clock, birth, 0, NakIdx(lon) % NumLords, birth, Bal(lon))

(***************************************************************************)
(* The report script (lines 898-899), run again and again by the host.     *)
(* The birth data entered in the sidebar stay as first chosen; the session *)
(* starts at any sampled reading of the wall clock, which moves on between *)
(* two runs.                                                               *)
(***************************************************************************)

BirthDates == {BirthAfter * YearTicks}

\* The wall clock is sampled one tick before, at, and one tick after every
\* whole year of its scale.
ClockStep == YearTicks

NextSample(t) ==
    IF t % ClockStep = 1 THEN t + ClockStep - 2 ELSE t + 1

\* The readings of the wall clock at which a session may start.
SessionStarts ==
    {y * IdleYears * ClockStep : y \in 0..(MaxYears \div IdleYears)}

Unset == [ret |-> "unset"]

\* No helper function is being called.
NoCall == [fn |-> "none"]

NoReturn == [kind |-> "none"]

CallsIdle ==
    /\ fn_call = NoCall
    /\ fn_return = NoReturn
    /\ search_date = 0
    /\ step = 0

\* The report was asked for (line 832) and the chat is not used.
ReportShown ==
    /\ report_generated = TRUE
    /\ messages = <<>>
    /\ GEMINI_API_KEY = ""
    /\ ui_error = "none"
    /\ trigger = "none"

Init ==
    /\ ReportShown
    /\ CallsIdle
    /\ moon_lon \in MoonLons
    /\ birth_date \in BirthDates
    /\ now \in SessionStarts
    /\ pc = "wait"
    /\ mahadasha_data = <<>>
    /\ bhukti = Unset
    /\ exception = "none"

\* The host starts the script again; time has passed since the last run: the
\* wall clock stands at its next sample.
Rerun ==
    /\ pc = "wait"
    /\ NextSample(now) <= MaxYears * YearTicks
    /\ now' = NextSample(now)
    /\ pc' = "L898"
    /\ exception' = "none"
    /\ UNCHANGED <<moon_lon, birth_date, mahadasha_data, bhukti>>
    /\ UNCHANGED <<sessionvars, callvars>>

\* mahadasha_data = generate_mahadasha_table(moon_res[0], datetime.combine(...))
CallMahadashaTable ==
    /\ pc = "L898"
    /\ mahadasha_data' = generate_mahadasha_table(moon_lon, birth_date)
    /\ pc' = "L899"
    /\ UNCHANGED <<moon_lon, birth_date, now, bhukti, exception>>
    /\ UNCHANGED <<sessionvars, callvars>>

\* phases, pd_info = generate_current_next_bhukti(...): unpacking the value
\* None raises TypeError, which ends the script run.

Unpack(ret) ==
    IF ret = "None" THEN "TypeError" ELSE "none"

CallCurrentNextBhukti ==
    /\ pc = "L899"
    /\ bhukti' = generate_current_next_bhukti(moon_lon, birth_date, now)
    /\ exception' = Unpack(bhukti'.ret)
    /\ pc' = "wait"
    /\ UNCHANGED <<moon_lon, birth_date, now, mahadasha_data>>
    /\ UNCHANGED <<sessionvars, callvars>>

Next ==
    \/ Rerun
    \/ CallMahadashaTable
    \/ CallCurrentNextBhukti

Spec == Init /\ [][Next]_vars

(***************************************************************************)
(* The session: st.session_state (lines 804-805), the Generate Report      *)
(* button (lines 828-830), the chat input (lines 1059-1110) and the Clear  *)
(* Chat History button (lines 1112-1115).  Each action is the run of the   *)
(* script that one widget starts; the chat widgets exist only in a run     *)
(* that shows the report (line 832) and gets through it.                   *)
(***************************************************************************)

\* The longest chat history followed.
MaxMessages == 5

Prompts == {"career?", "health?"}

\* GEMINI_API_KEY (lines 10-17): from the secrets or api_config, or "";
\* every run of the script reads it again.
ApiKeys == {"", "key"}

\* What the calls of the generative service do in one run of the handler:
\* building the context and configuring the client, genai.list_models(),
\* generate_content with response.text on the chosen model, and the same on
\* the fallback model.
ModelNames == {"models/gemini-1.5-flash", "models/gemini-1.0-pro", "models/other"}

Outcomes ==
    [context : {"ok", "raise"},
     list_models : {"ok", "raise"},
     available_models : SUBSET ModelNames,
     generate : {"ok", "raise"},
     fallback : {"ok", "raise"}]

UserMsg(prompt) == [role |-> "user", content |-> prompt]

AssistantMsg == [role |-> "assistant", content |-> "response.text"]

\* target_model (lines 1088-1091)
TargetModel(available_models) ==
    IF "models/gemini-1.5-flash" \in available_models THEN "models/gemini-1.5-flash"
    ELSE IF "models/gemini-1.0-pro" \in available_models THEN "models/gemini-1.0-pro"
    ELSE IF available_models # {} THEN CHOOSE m \in available_models : TRUE
    ELSE "None"

\* except Exception as e: st.error(f"AI Generation Failed. ...")
Failed(msgs) == [messages |-> msgs, error |-> "AI Generation Failed"]

\* The fallback answering although it raised: a reply after a failure.
FallbackAlways(msgs, o) ==
    [messages |-> Append(msgs, AssistantMsg), error |-> "none"]

\* except: model = genai.GenerativeModel('gemini-1.5-flash-latest') ...
Fallback(msgs, o) ==
    IF o.fallback = "raise" THEN Failed(msgs)
    ELSE [messages |-> Append(msgs, AssistantMsg), error |-> "none"]

\* The reply appended before the call and again after it.
InnerTryTwice(msgs, o) ==
    [messages |-> Append(Append(msgs, AssistantMsg), AssistantMsg), error |-> "none"]

\* The inner try (lines 1087-1101).
InnerTry(msgs, o) ==
    IF o.list_models = "raise" THEN Fallback(msgs, o)
    ELSE IF TargetModel(o.available_models) = "None"
         THEN [messages |-> msgs, error |-> "no access to text-generation models"]
         ELSE IF o.generate = "raise" THEN Fallback(msgs, o)
              ELSE [messages |-> Append(msgs, AssistantMsg), error |-> "none"]

\* The outer try (lines 1069-1109).
OuterTry(msgs, o) ==
    IF o.context = "raise" THEN Failed(msgs) ELSE InnerTry(msgs, o)

\* The key looked at after the user message is appended.
ChatInputAppendFirst(msgs, key, prompt_input, o) ==
    IF key = ""
    THEN [messages |-> Append(msgs, UserMsg(prompt_input)), error |-> "API Key missing"]
    ELSE OuterTry(Append(msgs, UserMsg(prompt_input)), o)

\* if prompt_input := st.chat_input(...): (lines 1059-1110)
ChatInput(msgs, key, prompt_input, o) ==
    IF key = ""
    THEN [messages |-> msgs, error |-> "API Key missing"]
    ELSE OuterTry(Append(msgs, UserMsg(prompt_input)), o)

ReportIdle ==
    /\ moon_lon = 0
    /\ birth_date = 0
    /\ now = 0
    /\ pc = "wait"
    /\ mahadasha_data = <<>>
    /\ bhukti = Unset
    /\ exception = "none"

SessionInit ==
    /\ report_generated = FALSE
    /\ messages = <<>>
    /\ GEMINI_API_KEY \in ApiKeys
    /\ ui_error = "none"
    /\ trigger = "none"
    /\ ReportIdle
    /\ CallsIdle

\* The button left as it is: the flag set, the chat kept.
GenerateReportKeepsChat ==
    /\ GEMINI_API_KEY' \in ApiKeys
    /\ report_generated' = TRUE
    /\ trigger' = "Generate Report"
    /\ UNCHANGED <<messages, ui_error, reportvars, callvars>>

\* if st.button("Generate Report"):
GenerateReport ==
    /\ GEMINI_API_KEY' \in ApiKeys
    /\ report_generated' = TRUE
    /\ messages' = <<>>
    /\ trigger' = "Generate Report"
    /\ UNCHANGED <<ui_error, reportvars, callvars>>

\* A prompt is submitted in the chat input.
SubmitPrompt ==
    /\ report_generated
    /\ Len(messages) + 2 <= MaxMessages
    /\ GEMINI_API_KEY' \in ApiKeys
    /\ \E prompt_input \in Prompts, o \in Outcomes :
           LET after == ChatInput(messages, GEMINI_API_KEY', prompt_input, o)
           IN  /\ messages' = after.messages
               /\ ui_error' = after.error
    /\ trigger' = "chat_input"
    /\ UNCHANGED <<report_generated, reportvars, callvars>>

\* if st.session_state.messages: if st.button("Clear Chat History"):
ClearChatHistory ==
    /\ report_generated
    /\ messages # <<>>
    /\ GEMINI_API_KEY' \in ApiKeys
    /\ messages' = <<>>
    /\ trigger' = "Clear Chat History"
    /\ UNCHANGED <<report_generated, ui_error, reportvars, callvars>>

SessionNext ==
    \/ GenerateReport
    \/ SubmitPrompt
    \/ ClearChatHistory

SessionSpec == SessionInit /\ [][SessionNext]_vars

(***************************************************************************)
(* determine_house (lines 97-105).  Longitudes and cusps are whole         *)
(* degrees.  A call holds planet_lon and below: below = 1 stands for a     *)
(* negative longitude so near 0 that the floating-point planet_lon % 360   *)
(* is 360.0 (-1e-20 % 360 == 360.0).                                       *)
(***************************************************************************)

NumHouses == 12

Circle == 360

\* The first cusp of the lists drawn is a multiple of BaseStep degrees.
BaseStep == 15

\* Planet longitudes are drawn from -LonMargin to Circle + LonMargin.
LonMargin == 5

\* p_lon = planet_lon % 360
PLon(planet_lon, below) ==
    IF planet_lon = 0 /\ below = 1 THEN Circle ELSE planet_lon % Circle

\* The wrap-around branch left out.
RECURSIVE HouseLoopNoWrap(_, _, _)
HouseLoopNoWrap(p_lon, cusps, i) ==
    IF i >= NumHouses THEN [kind |-> "value", value |-> 1, via |-> "fallback"]
    ELSE LET lower == cusps[i + 1]
             upper == cusps[((i + 1) % NumHouses) + 1]
         IN  IF lower < upper /\ lower <= p_lon /\ p_lon < upper
             THEN [kind |-> "value", value |-> i + 1, via |-> "loop"]
             ELSE HouseLoopNoWrap(p_lon, cusps, i + 1)

\* for i in range(12): ... return i + 1; after the loop, return 1.
RECURSIVE HouseLoop(_, _, _)
HouseLoop(p_lon, cusps, i) ==
    IF i >= NumHouses THEN [kind |-> "value", value |-> 1, via |-> "fallback"]
    ELSE LET lower == cusps[i + 1]
             upper == cusps[((i + 1) % NumHouses) + 1]
             hit == IF lower < upper
                    THEN lower <= p_lon /\ p_lon < upper
                    ELSE p_lon >= lower \/ p_lon < upper
         IN  IF hit THEN [kind |-> "value", value |-> i + 1, via |-> "loop"]
             ELSE HouseLoop(p_lon, cusps, i + 1)

determine_house(planet_lon, below, cusps) ==
    HouseLoop(PLon(planet_lon, below), cusps, 0)

\* The distances of the 12 cusps from the first one: equal houses, unequal
\* houses with opposite cusps 180 degrees apart, and houses crowded into 11
\* degrees.
CuspShapes ==
    { [i \in 1..NumHouses |-> (Circle \div NumHouses) * (i - 1)],
      <<0, 20, 45, 90, 135, 160, 180, 200, 225, 270, 315, 340>>,
      [i \in 1..NumHouses |-> i - 1] }

Turned(shape, base) == [i \in 1..NumHouses |-> (base + shape[i]) % Circle]

Backwards(c) == [i \in 1..NumHouses |-> c[NumHouses + 1 - i]]

\* Cusps in increasing cyclic order from every base, the same lists
\* backwards, and lists of 12 equal cusps.
CuspLists ==
    LET bases == {k * BaseStep : k \in 0..((Circle - 1) \div BaseStep)}
        ordered == {Turned(shape, base) : shape \in CuspShapes, base \in bases}
    IN  ordered \cup {Backwards(c) : c \in ordered}
            \cup {[i \in 1..NumHouses |-> base] : base \in bases}

HouseCalls ==
    {[fn |-> "determine_house", planet_lon |-> lon, below |-> 0, cusps |-> c] :
        lon \in (0 - LonMargin)..(Circle + LonMargin), c \in CuspLists}
    \cup {[fn |-> "determine_house", planet_lon |-> 0, below |-> 1, cusps |-> c] :
            c \in CuspLists}

SessionIdle ==
    /\ report_generated = FALSE
    /\ messages = <<>>
    /\ GEMINI_API_KEY = ""
    /\ ui_error = "none"
    /\ trigger = "none"

HouseInit ==
    /\ fn_call \in HouseCalls
    /\ fn_return = NoReturn
    /\ search_date = 0
    /\ step = 0
    /\ ReportIdle
    /\ SessionIdle

CallDetermineHouse ==
    /\ fn_call.fn = "determine_house"
    /\ fn_return = NoReturn
    /\ fn_return' = determine_house(fn_call.planet_lon, fn_call.below, fn_call.cusps)
    /\ UNCHANGED <<fn_call, search_date, step, reportvars, sessionvars>>

HouseNext == CallDetermineHouse

HouseSpec == HouseInit /\ [][HouseNext]_vars

(***************************************************************************)
(* get_location_search (lines 34-38) and get_utc_offset (lines 45-50):     *)
(* each is one try block with a bare except.  A call holds the arguments   *)
(* and what each call into the geocoder or the timezone library does:      *)
(* "ok", or the class of the exception it raises.                          *)
(***************************************************************************)

\* An exception derived from Exception (a timeout, an unknown zone, an
\* AttributeError), or one derived from BaseException only (KeyboardInterrupt,
\* SystemExit).
Raises == {"Exception", "BaseException"}

Returned(value) == [kind |-> "value", value |-> value]

Raised(class) == [kind |-> "raise", class |-> class]

\* except Exception: the exceptions outside Exception go on to the caller.
ExceptException(body, default) ==
    IF body.kind = "raise" /\ body.class = "Exception" THEN Returned(default) ELSE body

\* try: <body> except: return <default>
Except(body, default) ==
    IF body.kind = "raise" THEN Returned(default) ELSE body

\* The queries typed into the City field: the text, whether query.strip()
\* is all digits, and its length; None stands for a value without strip().
Queries ==
    { [text |-> "Saidapet, Chennai", isdigit |-> FALSE, len |-> 17],
      [text |-> "600015", isdigit |-> TRUE, len |-> 6],
      [text |-> " 600015 ", isdigit |-> TRUE, len |-> 6],
      [text |-> "60001", isdigit |-> TRUE, len |-> 5],
      [text |-> "   ", isdigit |-> FALSE, len |-> 0],
      [text |-> "None", isdigit |-> FALSE, len |-> 0] }

\* What geocode(...) returns when it returns: None or a list of locations.
Locations(list) == [is_none |-> FALSE, list |-> list]

GeocodeValues ==
    { [is_none |-> TRUE, list |-> <<>>],
      Locations(<<>>), Locations(<<"loc1">>), Locations(<<"loc1", "loc2">>) }

LocationCalls ==
    {[fn |-> "get_location_search", query |-> q, nominatim |-> n,
      geocode |-> g, locations |-> v] :
        q \in Queries, n \in {"ok"} \cup Raises,
        g \in {"ok"} \cup Raises, v \in GeocodeValues}

\* if query.strip().isdigit() and len(query.strip()) == 6:
\*     query = f"{query}, India"
SentQuery(query) ==
    IF query.isdigit /\ query.len = 6 THEN query.text \o ", India" ELSE query.text

\* The body of the try block of get_location_search.
LocationBody(call) ==
    IF call.query.text = "None" THEN Raised("Exception")
    ELSE IF call.nominatim # "ok" THEN Raised(call.nominatim)
    ELSE IF call.geocode # "ok" THEN Raised(call.geocode)
    ELSE [kind |-> "value", value |-> call.locations, sent |-> SentQuery(call.query)]

get_location_search(call) == Except(LocationBody(call), Locations(<<>>))

\* Offsets are in minutes: 5.5 hours are 330 minutes.
DefaultOffset == 330

UtcOffsets == {-300, -240, 0, 60, 330, 345}

OffsetCalls ==
    {[fn |-> "get_utc_offset", tz_str |-> z, date_obj |-> d, timezone |-> t,
      localize |-> l, utcoffset |-> u] :
        z \in {"Asia/Kolkata", "America/New_York", "None"},
        d \in {"datetime", "aware datetime", "date"},
        t \in {"ok"} \cup Raises, l \in {"ok"} \cup Raises, u \in UtcOffsets}

\* The body of the try block of get_utc_offset.
OffsetBody(call) ==
    IF call.tz_str = "None" THEN Raised("Exception")
    ELSE IF call.timezone # "ok" THEN Raised(call.timezone)
    ELSE IF call.localize # "ok" THEN Raised(call.localize)
    ELSE Returned(call.utcoffset)

get_utc_offset(call) == Except(OffsetBody(call), DefaultOffset)

FallbackInit ==
    /\ fn_call \in LocationCalls \cup OffsetCalls
    /\ fn_return = NoReturn
    /\ search_date = 0
    /\ step = 0
    /\ ReportIdle
    /\ SessionIdle

CallGetLocationSearch ==
    /\ fn_call.fn = "get_location_search"
    /\ fn_return = NoReturn
    /\ fn_return' = get_location_search(fn_call)
    /\ UNCHANGED <<fn_call, search_date, step, reportvars, sessionvars>>

CallGetUtcOffset ==
    /\ fn_call.fn = "get_utc_offset"
    /\ fn_return = NoReturn
    /\ fn_return' = get_utc_offset(fn_call)
    /\ UNCHANGED <<fn_call, search_date, step, reportvars, sessionvars>>

FallbackNext ==
    \/ CallGetLocationSearch
    \/ CallGetUtcOffset

FallbackSpec == FallbackInit /\ [][FallbackNext]_vars

(***************************************************************************)
(* get_next_transit_date (lines 377-384).  Dates are days after            *)
(* start_date; the ephemeris of a call says in which sign swe.calc_ut      *)
(* finds the planet at noon of each stepped date: in current_rasi before   *)
(* the step change_at, in the sign `to` from then on, and back in          *)
(* current_rasi from the step back_at on (a retrograde planet).            *)
(***************************************************************************)

TransitCapLonger == 1200 + 1

\* for _ in range(1200):
TransitCap == 1200

\* search_date += timedelta(days=2)
StepDays == 2

\* The steps at which the ephemerides drawn change sign: the first steps,
\* the last ones of the loop, and steps beyond it.
ChangeSteps == {1, 2, 3, 600, 1199, 1200, 1201, 1300}

Ephemerides ==
    {[change_at |-> c, to |-> r, back_at |-> c + d] :
        c \in ChangeSteps, r \in {4, 12}, d \in {1, 2, 1300}}

TransitCalls ==
    {[fn |-> "get_next_transit_date", current_rasi |-> r, start_date |-> 0,
      ephemeris |-> e] : r \in {1, 12}, e \in Ephemerides}

\* new_rasi = int(swe.calc_ut(jd, planet_id, swe.FLG_SIDEREAL)[0][0] / 30) + 1
\* at the n-th stepped date.
NewRasi(call, n) ==
    IF n >= call.ephemeris.change_at /\ n < call.ephemeris.back_at
    THEN call.ephemeris.to
    ELSE call.current_rasi

TransitInit ==
    /\ fn_call \in TransitCalls
    /\ fn_return = NoReturn
    /\ search_date = fn_call.start_date
    /\ step = 0
    /\ ReportIdle
    /\ SessionIdle

\* One pass of the loop body: the date stepped, the sign looked up, and the
\* return when the sign differs.
TransitStep ==
    /\ fn_call.fn = "get_next_transit_date"
    /\ fn_return = NoReturn
    /\ step < TransitCap
    /\ step' = step + 1
    /\ search_date' = search_date + StepDays
    /\ LET new_rasi == NewRasi(fn_call, step')
       IN  fn_return' = IF new_rasi # fn_call.current_rasi
                        THEN [kind |-> "date", date |-> search_date', rasi |-> new_rasi]
                        ELSE NoReturn
    /\ UNCHANGED <<fn_call, reportvars, sessionvars>>

\* return "Long Term", current_rasi
TransitLongTerm ==
    /\ fn_call.fn = "get_next_transit_date"
    /\ fn_return = NoReturn
    /\ step >= TransitCap
    /\ fn_return' = [kind |-> "Long Term", rasi |-> fn_call.current_rasi]
    /\ UNCHANGED <<fn_call, search_date, step, reportvars, sessionvars>>

TransitNext ==
    \/ TransitStep
    \/ TransitLongTerm

TransitSpec == TransitInit /\ [][TransitNext]_vars

(***************************************************************************)
(* The inputs of the resolver as the specification names them.             *)
(***************************************************************************)

\* starting_unit_index = floor(lon / span) mod 9
StartingUnit == DASHA_ORDER[((moon_lon \div LonRes) % NumLords) + 1]

\* WEIGHT[unit] * (1 - epoch_fraction) years, epoch_fraction being
\* (moon_lon % LonRes) / LonRes, in ticks (to the nearest tick).
TruncatedTicks(unit) ==
    LET whole == DASHA_YEARS[unit] * YearTicks
        rest == LonRes - (moon_lon % LonRes)
    IN  (whole \div NakSpan) * (rest \div FineRes)
            + RoundHalfEven(whole * (rest % FineRes), LonRes)

\* epoch_fraction > 0
Truncated == moon_lon % LonRes # 0

TableCalled == mahadasha_data # <<>>

Resolved == bhukti.ret = "tuple"

NotResolved == bhukti.ret \notin {"unset", "tuple"}

\* Each row starts where the row before it ends.
Contiguous(rows) ==
    \A n \in 1..(Len(rows) - 1) : rows[n + 1].curr_date = rows[n].end_date

(***************************************************************************)
(* C1.  Timeline mode: the 9 top-level intervals have no gaps and no       *)
(* overlaps and their union is exactly [birth, birth + 120 years).         *)
(***************************************************************************)

\* C1 as stated: the union is [birth_instant, birth_instant + 120 years) for
\* every starting unit and every epoch_fraction in [0, 1).
C1_CoversFullCycle ==
    TableCalled =>
        /\ Len(mahadasha_data) = NumLords
        /\ Contiguous(mahadasha_data)
        /\ mahadasha_data[1].curr_date = birth_date
        /\ mahadasha_data[NumLords].end_date = birth_date + CycleYears * YearTicks

\* C1 as amended: the 9 intervals are contiguous from birth_instant and their
\* union is [birth_instant, birth_instant + 120 years - WEIGHT[first unit] *
\* epoch_fraction years), which is the full 120 years only for epoch_fraction 0.
C1_CoversTruncatedCycle ==
    TableCalled =>
        /\ Len(mahadasha_data) = NumLords
        /\ Contiguous(mahadasha_data)
        /\ mahadasha_data[1].curr_date = birth_date
        /\ mahadasha_data[NumLords].end_date =
               birth_date + CycleYears * YearTicks
                   - (DASHA_YEARS[StartingUnit] * YearTicks - TruncatedTicks(StartingUnit))

C1_Witness == TableCalled /\ Truncated

(***************************************************************************)
(* C2.  A point lookup at birth + 200 years fails with PeriodNotFound and  *)
(* returns no resolved triple.                                             *)
(***************************************************************************)

\* C2: at query_instant = birth_instant + 200 years the lookup's outcome is
\* PeriodNotFound, not a triple found by walking the cycle a second time.
C2_FailsBeyondCycle ==
    (bhukti.ret # "unset" /\ bhukti.current_date = birth_date + 200 * YearTicks) =>
        bhukti.ret = "PeriodNotFound"

(***************************************************************************)
(* C3.  Consistency across levels: sub-sub inside sub inside major.        *)
(***************************************************************************)

\* C3: for a query inside the 120-year span, [pd_start, pd_end] lies inside
\* [ad_start, ad_end], which lies inside [curr_md_start, md_end].
C3_NestedIntervals ==
    ( /\ Resolved
      /\ birth_date <= bhukti.current_date
      /\ bhukti.current_date < birth_date + CycleYears * YearTicks ) =>
        /\ bhukti.ad_start <= bhukti.pd_start
        /\ bhukti.pd_end <= bhukti.ad_end
        /\ bhukti.curr_md_start <= bhukti.ad_start
        /\ bhukti.ad_end <= bhukti.md_end

(***************************************************************************)
(* C4.  A lookup that brackets no interval reaches its caller as a typed   *)
(* PeriodNotFound failure, and the caller's run goes on.                   *)
(***************************************************************************)

\* C4: when no interval is bracketed the caller sees PeriodNotFound, never an
\* absent value, and the script run does not end in an exception.
C4_TypedFailure ==
    NotResolved => (bhukti.ret = "PeriodNotFound" /\ exception = "none")

(***************************************************************************)
(* C5.  Determinism: the result depends on the explicit inputs only.       *)
(***************************************************************************)

\* What the function hands back: the (major, sub, sub-sub) names, the next sub
\* unit and the sub and sub-sub intervals; or nothing.
ReturnValue(b) ==
    IF b.ret = "tuple"
    THEN <<b.ret, b.MD, b.AD, b.PD, b.next_ad,
           <<b.ad_start, b.ad_end, b.pd_start, b.pd_end>> >>
    ELSE <<b.ret, "", "", "", "", <<>> >>

\* C5: two lookups with the same arguments (moon_lon, birth_date) return the
\* same value; nothing that is not an argument, such as the wall clock, has
\* a part in it.
C5_Deterministic ==
    [][ ( /\ bhukti.ret # "unset"
          /\ bhukti'.ret # "unset"
          /\ moon_lon' = moon_lon
          /\ birth_date' = birth_date )
        => ReturnValue(bhukti') = ReturnValue(bhukti) ]_vars

(***************************************************************************)
(* C6.  Top-level durations, in the timeline and in the point lookup.      *)
(***************************************************************************)

\* C6: the major interval that starts at birth lasts WEIGHT[unit] *
\* (1 - epoch_fraction) years and every later one WEIGHT[unit] years.
C6_TopLevelDurations ==
    /\ TableCalled =>
           \A n \in 1..Len(mahadasha_data) :
               LET row == mahadasha_data[n]
               IN  row.end_date - row.curr_date =
                       IF n = 1 THEN TruncatedTicks(row.Mahadasha)
                       ELSE DASHA_YEARS[row.Mahadasha] * YearTicks
    /\ Resolved =>
           bhukti.md_end - bhukti.curr_md_start =
               IF bhukti.k = 0 THEN TruncatedTicks(bhukti.MD)
               ELSE DASHA_YEARS[bhukti.MD] * YearTicks

C6_Witness == TableCalled /\ Resolved /\ bhukti.k = 0 /\ Truncated

(***************************************************************************)
(* C7.  Sub-level durations.                                               *)
(***************************************************************************)

\* The sub periods of the major period the lookup returned from.
BhuktiAdPeriods ==
    AdPeriods(bhukti.MD, IndexOf(bhukti.MD), 0, bhukti.curr_md_start)

\* The sub-sub periods of the sub period the lookup returned from.
BhuktiPdPeriods ==
    PdPeriods(bhukti.ad_dur, IndexOf(bhukti.AD), 0, bhukti.ad_start)

\* C7: each sub-unit lasts (years of the containing major interval *
\* WEIGHT[sub_unit]) / 120, and the first sub-interval starts at the major
\* interval's start.
C7_SubDurations ==
    Resolved =>
        /\ BhuktiAdPeriods[1].start = bhukti.curr_md_start
        /\ \A n \in 1..NumLords :
               BhuktiAdPeriods[n].dur * CycleYears =
                   (bhukti.md_end - bhukti.curr_md_start)
                       * DASHA_YEARS[BhuktiAdPeriods[n].lord]

(***************************************************************************)
(* C8.  Child partition invariant at the sub and sub-sub levels.           *)
(***************************************************************************)

\* The periods follow one another from `start` and the last ends at `end`.
Tiles(periods, start, end) ==
    /\ Len(periods) = NumLords
    /\ periods[1].start = start
    /\ \A n \in 1..(NumLords - 1) : periods[n + 1].start = periods[n].end
    /\ periods[NumLords].end = end

\* C8: the 9 sub intervals span exactly the major interval and the 9 sub-sub
\* intervals span exactly the sub interval, contiguously.
C8_ChildrenTileParent ==
    Resolved =>
        /\ Tiles(BhuktiAdPeriods, bhukti.curr_md_start, bhukti.md_end)
        /\ Tiles(BhuktiPdPeriods, bhukti.ad_start, bhukti.ad_end)

(***************************************************************************)
(* C9.  Half-open intervals.                                               *)
(***************************************************************************)

\* C9: a query at the boundary of two consecutive intervals resolves to the
\* one that starts there: at every level the interval returned holds the
\* query in [start, end).  (The end of the 20th major interval, after which
\* no interval follows, is left out.)
C9_HalfOpen ==
    (Resolved /\ bhukti.k < MdCap - 1) =>
        /\ bhukti.curr_md_start <= bhukti.current_date
        /\ bhukti.current_date < bhukti.md_end
        /\ bhukti.ad_start <= bhukti.current_date
        /\ bhukti.current_date < bhukti.ad_end
        /\ bhukti.pd_start <= bhukti.current_date
        /\ bhukti.current_date < bhukti.pd_end

(***************************************************************************)
(* C10.  A query before birth.                                             *)
(***************************************************************************)

\* C10: a lookup whose query instant is before birth_instant returns no
\* resolved triple and ends as PeriodNotFound.
C10_BeforeBirthNotFound ==
    (bhukti.ret # "unset" /\ bhukti.current_date < birth_date) =>
        bhukti.ret = "PeriodNotFound"

\* The part of C10 the code keeps: no triple is returned before birth.
BeforeBirthNoTriple ==
    (bhukti.ret # "unset" /\ bhukti.current_date < birth_date) =>
        bhukti.ret = "None"

(***************************************************************************)
(* C11.  Nested sequence order.                                            *)
(***************************************************************************)

\* The place of a unit in the cyclic order, 0..8, and the unit `n` places on.
UnitPlace(unit) == CHOOSE p \in 0..(NumLords - 1) : DASHA_ORDER[p + 1] = unit

UnitAfter(unit, n) == DASHA_ORDER[((UnitPlace(unit) + n) % NumLords) + 1]

\* The periods name `first`, then the units after it in cyclic order, each of
\* the 9 units once.
CyclicFrom(periods, first) ==
    /\ Len(periods) = NumLords
    /\ \A n \in 1..NumLords : periods[n].lord = UnitAfter(first, n - 1)
    /\ Cardinality({periods[n].lord : n \in 1..NumLords}) = NumLords

\* C11: the sub walk starts at the unit of the containing major interval and
\* the sub-sub walk at the unit of the containing sub interval; each visits
\* the 9 units once, in cyclic order; the units returned are those the walks
\* stood at.
C11_NestedOrder ==
    Resolved =>
        /\ CyclicFrom(BhuktiAdPeriods, bhukti.MD)
        /\ CyclicFrom(BhuktiPdPeriods, bhukti.AD)
        /\ bhukti.AD = UnitAfter(bhukti.MD, bhukti.i)
        /\ bhukti.PD = UnitAfter(bhukti.AD, bhukti.j)

C11_Witness ==
    Resolved /\ bhukti.MD # DASHA_ORDER[1] /\ bhukti.i > 0 /\ bhukti.j > 0

(***************************************************************************)
(* C12.  The timeline's rows.                                              *)
(***************************************************************************)

\* C12: exactly 9 rows, labelled in cyclic order from starting_unit_index,
\* every unit once, and only the first row truncated by epoch_fraction.
C12_TimelineRows ==
    TableCalled =>
        /\ Len(mahadasha_data) = NumLords
        /\ \A n \in 1..NumLords :
               mahadasha_data[n].Mahadasha =
                   DASHA_ORDER[((moon_lon \div LonRes + n - 1) % NumLords) + 1]
        /\ Cardinality({mahadasha_data[n].Mahadasha : n \in 1..NumLords}) = NumLords
        /\ mahadasha_data[1].end_date - mahadasha_data[1].curr_date =
               TruncatedTicks(mahadasha_data[1].Mahadasha)
        /\ \A n \in 2..NumLords :
               mahadasha_data[n].end_date - mahadasha_data[n].curr_date =
                   DASHA_YEARS[mahadasha_data[n].Mahadasha] * YearTicks

C12_Witness ==
    TableCalled /\ Truncated /\ mahadasha_data[1].Mahadasha # DASHA_ORDER[1]

(***************************************************************************)
(* C13.  Monotonicity.                                                     *)
(***************************************************************************)

\* C13: every interval computed at the major, sub and sub-sub level ends
\* strictly after it starts, for every epoch_fraction in [0, 1).
C13_EndAfterStart ==
    /\ TableCalled =>
           \A n \in 1..Len(mahadasha_data) :
               mahadasha_data[n].curr_date < mahadasha_data[n].end_date
    /\ Resolved =>
           /\ bhukti.curr_md_start < bhukti.md_end
           /\ \A n \in 1..NumLords :
                  /\ BhuktiAdPeriods[n].start < BhuktiAdPeriods[n].end
                  /\ BhuktiPdPeriods[n].start < BhuktiPdPeriods[n].end

(***************************************************************************)
(* C14.  The concrete scenario: start index 2, epoch fraction 1/2, birth   *)
(* at 2000-01-01 00:00.                                                    *)
(***************************************************************************)

\* The date and the hour of the datetime t when birth is 2000-01-01 00:00.
ScenarioDate(t) ==
    LET q == QuarterDays(t - birth_date)
        d == DateAfter(q \div 4, 2000)
    IN  [year |-> d.year, yday |-> d.yday, hour |-> 6 * (q % 4)]

Scenario ==
    /\ TableCalled
    /\ (moon_lon \div LonRes) % NumLords = 2
    /\ 2 * (moon_lon % LonRes) = LonRes

\* C14 as stated: the first interval is C (the third unit) and ends on
\* 2003-01-01, the second is D and ends on 2013-01-01.
C14_ScenarioNewYear ==
    Scenario =>
        /\ mahadasha_data[1].Mahadasha = DASHA_ORDER[3]
        /\ ScenarioDate(mahadasha_data[1].end_date).year = 2003
        /\ ScenarioDate(mahadasha_data[1].end_date).yday = 0
        /\ mahadasha_data[2].Mahadasha = DASHA_ORDER[4]
        /\ ScenarioDate(mahadasha_data[2].end_date).year = 2013
        /\ ScenarioDate(mahadasha_data[2].end_date).yday = 0

\* C14: in the scenario the first interval is C, lasts 3 years of 365.25
\* days and ends on 2002-12-31 at 18:00; the second is D, lasts 10 years and
\* ends on 2012-12-31 at 06:00.
C14_ScenarioYearEnd ==
    Scenario =>
        /\ mahadasha_data[1].Mahadasha = DASHA_ORDER[3]
        /\ mahadasha_data[1].curr_date = birth_date
        /\ mahadasha_data[1].end_date - birth_date = 3 * YearTicks
        /\ ScenarioDate(mahadasha_data[1].end_date) =
               [year |-> 2002, yday |-> 364, hour |-> 18]
        /\ mahadasha_data[2].Mahadasha = DASHA_ORDER[4]
        /\ mahadasha_data[2].end_date - mahadasha_data[2].curr_date = 10 * YearTicks
        /\ ScenarioDate(mahadasha_data[2].end_date) =
               [year |-> 2012, yday |-> 365, hour |-> 6]

C14_Witness == Scenario /\ DASHA_YEARS[mahadasha_data[1].Mahadasha] = 6

(***************************************************************************)
(* C15.  The weights sum to 120.                                           *)
(***************************************************************************)

\* The weights of the first n units of the cyclic order, added up.
RECURSIVE WeightSum(_)
WeightSum(n) ==
    IF n = 0 THEN 0 ELSE WeightSum(n - 1) + DASHA_YEARS[DASHA_ORDER[n]]

\* The durations of the first n periods, added up.
RECURSIVE DurSum(_, _)
DurSum(periods, n) ==
    IF n = 0 THEN 0 ELSE DurSum(periods, n - 1) + periods[n].dur

\* C15: DASHA_YEARS over the 9 units of DASHA_ORDER sums to 120, the number
\* the sub and sub-sub durations are divided by: the 9 sub durations add up
\* to the full years of their major unit and the 9 sub-sub durations to
\* their sub period.
C15_SumTo120 ==
    /\ WeightSum(NumLords) = 120
    /\ WeightSum(NumLords) = CycleYears
    /\ Resolved =>
           /\ DurSum(BhuktiAdPeriods, NumLords) = DASHA_YEARS[bhukti.MD] * YearTicks
           /\ DurSum(BhuktiPdPeriods, NumLords) = bhukti.ad_dur

C15_Witness == Resolved /\ bhukti.k > 0 /\ bhukti.ad_dur > 0

(***************************************************************************)
(* C16.  The starting unit and the remaining fraction, from the longitude. *)
(***************************************************************************)

\* floor(lon / (13 1/3)).  The code's span 13.333333333 is LonRes units and
\* 13 1/3 degrees are 2.5e-11 of a span more: a longitude on a multiple of
\* the code's span lies just below the same multiple of 13 1/3, and every
\* other longitude of the model lies in the same span for both.
ExactIdx(lon) ==
    IF lon > 0 /\ lon % LonRes = 0 THEN lon \div LonRes - 1 ELSE lon \div LonRes

\* C16: the timeline and the lookup both start at the unit with index
\* floor(lon / (13 1/3)) mod 9, the remaining fraction lies in (0, 1], and
\* the two functions give the first major period the same unit and the same
\* end.
C16_StartAndFraction ==
    /\ Bal(moon_lon) \in 1..LonRes
    /\ TableCalled =>
           mahadasha_data[1].Mahadasha =
               DASHA_ORDER[(ExactIdx(moon_lon) % NumLords) + 1]
    /\ (Resolved /\ bhukti.k = 0) =>
           bhukti.MD = DASHA_ORDER[(ExactIdx(moon_lon) % NumLords) + 1]
    /\ (TableCalled /\ Resolved /\ bhukti.k = 0) =>
           /\ bhukti.MD = mahadasha_data[1].Mahadasha
           /\ bhukti.md_end = mahadasha_data[1].end_date

(***************************************************************************)
(* C17.  The search is bounded.                                            *)
(***************************************************************************)

\* C17: every lookup ends, with a value or with None; it has then examined
\* at most 20 major periods, at most 9 sub periods of the major period it
\* returns from and at most 9 sub-sub periods of the sub period it returns
\* from; it ends with None after exactly 20 major periods.
C17_BoundedSearch ==
    bhukti.ret # "unset" =>
        /\ bhukti.ret \in {"tuple", "None"}
        /\ Resolved =>
               /\ bhukti.k + 1 \in 1..20
               /\ bhukti.i + 1 \in 1..9
               /\ bhukti.j + 1 \in 1..9
        /\ bhukti.ret = "None" => bhukti.k = 20

C17_Witness == Resolved /\ bhukti.k = 19

(***************************************************************************)
(* C18.  The NEXT PHASE entry.                                             *)
(***************************************************************************)

\* p2["Phase"] = f"{t_md} - {t_next_ad}": the (major, sub) pair it names.
NextPhase(b) == <<b.MD, b.next_ad>>

\* The (major, sub) pair of the sub period that follows, in time, the sub
\* period at position i of the major period of md: the next sub period of
\* the same major period, or the first one of the next major period.
FollowingSub(md, i) ==
    IF i + 1 < NumLords THEN <<md, UnitAfter(md, i + 1)>>
    ELSE <<UnitAfter(md, 1), UnitAfter(md, 1)>>

\* C18: the NEXT PHASE entry names the sub period that immediately follows
\* the current one, also when the current one is the 9th of its major
\* period.
C18_NextPhaseFollows ==
    Resolved => NextPhase(bhukti) = FollowingSub(bhukti.MD, bhukti.i)

(***************************************************************************)
(* C19.  Totality within the range of the walk.                            *)
(***************************************************************************)

\* The years of the n units that follow `unit` in the cyclic order.
RECURSIVE YearsAfter(_, _)
YearsAfter(unit, n) ==
    IF n = 0 THEN 0
    ELSE YearsAfter(unit, n - 1) + DASHA_YEARS[UnitAfter(unit, n)]

\* The end of the 20th major interval: the truncated first one, then 19
\* whole ones.
EndOf20thMajor ==
    birth_date + TruncatedTicks(StartingUnit) + YearsAfter(StartingUnit, 19) * YearTicks

\* C19: a lookup at an instant from birth to the end of the 20th major
\* interval, both included, returns a resolved triple.
C19_TotalInRange ==
    ( /\ bhukti.ret # "unset"
      /\ birth_date <= bhukti.current_date
      /\ bhukti.current_date <= EndOf20thMajor )
        => Resolved

C19_Witness == Resolved /\ bhukti.current_date = EndOf20thMajor

(***************************************************************************)
(* C20.  The timeline and the point lookup agree.                          *)
(***************************************************************************)

\* The instant t lies strictly inside the n-th row of the timeline.
StrictlyInsideRow(t, n) ==
    mahadasha_data[n].curr_date < t /\ t < mahadasha_data[n].end_date

\* C20: for a query instant strictly inside one of the 9 timeline intervals
\* the lookup returns the unit of that timeline entry as its major unit,
\* with the same start and end instants.
C20_TimelineLookupAgree ==
    (TableCalled /\ bhukti.ret # "unset") =>
        \A n \in 1..Len(mahadasha_data) :
            StrictlyInsideRow(bhukti.current_date, n) =>
                /\ Resolved
                /\ bhukti.MD = mahadasha_data[n].Mahadasha
                /\ bhukti.curr_md_start = mahadasha_data[n].curr_date
                /\ bhukti.md_end = mahadasha_data[n].end_date

C20_Witness ==
    /\ TableCalled
    /\ Resolved
    /\ Truncated
    /\ StrictlyInsideRow(bhukti.current_date, NumLords)

(***************************************************************************)
(* C21.  The ages and the years of the timeline rows.                      *)
(***************************************************************************)

\* C21: the first row starts at age 0 and in the birth year; every later
\* row starts at the age and in the calendar year the row before it ends
\* at; ages and years do not decrease along the list.
C21_RowsJoin ==
    TableCalled =>
        /\ mahadasha_data[1].age_from = 0
        /\ mahadasha_data[1].year_from = YearAt(birth_date, birth_date)
        /\ \A n \in 2..Len(mahadasha_data) :
               /\ mahadasha_data[n].age_from = mahadasha_data[n - 1].age_to
               /\ mahadasha_data[n].year_from = mahadasha_data[n - 1].year_to
        /\ \A n \in 1..Len(mahadasha_data) :
               /\ mahadasha_data[n].age_from <= mahadasha_data[n].age_to
               /\ mahadasha_data[n].year_from <= mahadasha_data[n].year_to

C21_Witness ==
    /\ TableCalled
    /\ Truncated
    /\ mahadasha_data[NumLords].age_from > mahadasha_data[2].age_to
    /\ mahadasha_data[NumLords].year_to > mahadasha_data[NumLords].year_from

(***************************************************************************)
(* C22.  The chat history, prompt by prompt.                               *)
(***************************************************************************)

NoTwoAssistants(msgs) ==
    \A n \in 1..(Len(msgs) - 1) :
        ~(msgs[n].role = "assistant" /\ msgs[n + 1].role = "assistant")

\* The history `after` is `before` with one user message added and then at
\* most one assistant message.
OneExchange(before, after) ==
    /\ Len(after) - Len(before) \in {1, 2}
    /\ SubSeq(after, 1, Len(before)) = before
    /\ after[Len(before) + 1].role = "user"
    /\ Len(after) = Len(before) + 2 => after[Len(before) + 2].role = "assistant"

\* C22: a prompt submitted with an API key present adds one user message and
\* then at most one assistant message, on every path of the handler; the
\* history never holds two assistant messages in a row, and a failed
\* generation adds the user message alone.
C22_OneUserAtMostOneReply ==
    [][ (trigger' = "chat_input" /\ GEMINI_API_KEY' # "") =>
            /\ OneExchange(messages, messages')
            /\ NoTwoAssistants(messages')
            /\ ui_error' = "AI Generation Failed" =>
                   Len(messages') = Len(messages) + 1 ]_vars

C22_Witness ==
    /\ trigger = "chat_input"
    /\ GEMINI_API_KEY # ""
    /\ ui_error = "AI Generation Failed"
    /\ Len(messages) >= 4
    /\ messages[Len(messages)].role = "user"
    /\ messages[Len(messages) - 1].role = "user"
    /\ messages[2].role = "assistant"

(***************************************************************************)
(* C23.  The session flags.                                                *)
(***************************************************************************)

\* C23: Generate Report sets report_generated and empties the chat history;
\* Clear Chat History empties the chat history and leaves report_generated
\* as it is; nothing sets report_generated back to False.
C23_SessionFlags ==
    [][ /\ trigger' = "Generate Report" =>
               (report_generated' = TRUE /\ messages' = <<>>)
        /\ trigger' = "Clear Chat History" =>
               (messages' = <<>> /\ report_generated' = report_generated)
        /\ report_generated = TRUE => report_generated' = TRUE ]_vars

C23_Witness ==
    /\ trigger = "Generate Report"
    /\ report_generated = TRUE
    /\ messages = <<>>
    /\ ui_error # "none"

(***************************************************************************)
(* C24.  A prompt without an API key.                                      *)
(***************************************************************************)

\* C24: a prompt submitted while the API key is empty shows the error and
\* leaves the chat history as it was.
C24_NoKeyNoMessage ==
    [][ (trigger' = "chat_input" /\ GEMINI_API_KEY' = "") =>
            (ui_error' = "API Key missing" /\ messages' = messages) ]_vars

C24_Witness ==
    /\ trigger = "chat_input"
    /\ GEMINI_API_KEY = ""
    /\ ui_error = "API Key missing"
    /\ messages # <<>>

(***************************************************************************)
(* C25.  determine_house.                                                  *)
(***************************************************************************)

\* 12 distinct points of the circle in increasing cyclic order: one descent
\* on the way round.
ProperCusps(c) ==
    /\ \A i \in 1..NumHouses : c[i] \in 0..(Circle - 1)
    /\ Cardinality({c[i] : i \in 1..NumHouses}) = NumHouses
    /\ Cardinality({i \in 1..NumHouses : c[i] > c[(i % NumHouses) + 1]}) = 1

\* The place of the longitude on the circle, in half degrees: a longitude
\* just below 0 lies just below 360.
HalfDegrees(call) == (2 * call.planet_lon - call.below) % (2 * Circle)

\* The segment [cusp i, cusp i+1) of the circle holds the call's longitude.
SegmentHolds(call, i) ==
    LET lower == 2 * call.cusps[i]
        upper == 2 * call.cusps[(i % NumHouses) + 1]
        x == HalfDegrees(call)
    IN  IF lower < upper THEN lower <= x /\ x < upper
        ELSE x >= lower \/ x < upper

HouseReturned == fn_call.fn = "determine_house" /\ fn_return.kind = "value"

\* C25: determine_house returns a house in 1..12 for every longitude and
\* every list of 12 cusps; with 12 distinct cusps in increasing cyclic order
\* exactly one segment holds the longitude, that house is returned, and it
\* is returned from the loop, never by the fallback.
C25_HouseOfLongitude ==
    HouseReturned =>
        /\ fn_return.value \in 1..12
        /\ ProperCusps(fn_call.cusps) =>
               /\ Cardinality({i \in 1..NumHouses : SegmentHolds(fn_call, i)}) = 1
               /\ SegmentHolds(fn_call, fn_return.value)
               /\ fn_return.via = "loop"

C25_Witness ==
    /\ HouseReturned
    /\ ProperCusps(fn_call.cusps)
    /\ fn_call.cusps[fn_return.value] > fn_call.cusps[(fn_return.value % NumHouses) + 1]
    /\ fn_return.value \notin {1, NumHouses}
    /\ fn_call.planet_lon < 0

(***************************************************************************)
(* C26.  The silent fallbacks.                                             *)
(***************************************************************************)

\* A call into the geocoder or the timezone library fails in this call.
ExternalFailure(call) ==
    IF call.fn = "get_location_search"
    THEN call.query.text = "None" \/ call.nominatim # "ok" \/ call.geocode # "ok"
    ELSE call.tz_str = "None" \/ call.timezone # "ok" \/ call.localize # "ok"

FallbackReturned ==
    /\ fn_call.fn \in {"get_location_search", "get_utc_offset"}
    /\ fn_return # NoReturn

\* C26: get_location_search and get_utc_offset never hand an exception to
\* their caller; when a call into the geocoder or the timezone library
\* fails they return [] and 5.5 hours.
C26_SilentFallbacks ==
    FallbackReturned =>
        /\ fn_return.kind = "value"
        /\ ExternalFailure(fn_call) =>
               fn_return.value =
                   IF fn_call.fn = "get_location_search"
                   THEN [is_none |-> FALSE, list |-> <<>>]
                   ELSE 330

C26_Witness ==
    /\ FallbackReturned
    /\ fn_call.fn = "get_utc_offset"
    /\ fn_call.localize = "BaseException"
    /\ fn_call.timezone = "ok"
    /\ fn_call.tz_str # "None"
    /\ fn_call.utcoffset # 330

(***************************************************************************)
(* C27.  get_next_transit_date.                                            *)
(***************************************************************************)

\* The steps among the first n at which the planet is outside current_rasi.
ChangesWithin(call, n) == {m \in 1..n : NewRasi(call, m) # call.current_rasi}

TransitCalled == fn_call.fn = "get_next_transit_date"

\* C27: the loop takes at most 1200 steps of two days; it returns the first
\* stepped date at which the sign differs from current_rasi, with that
\* sign, or "Long Term" with current_rasi when the sign differs at none of
\* the 1200 steps; a returned sign equals current_rasi only with the label
\* "Long Term".
C27_NextTransit ==
    TransitCalled =>
        /\ step <= 1200
        /\ search_date = fn_call.start_date + 2 * step
        /\ fn_return.kind = "none" => ChangesWithin(fn_call, step) = {}
        /\ fn_return.kind = "date" =>
               /\ ChangesWithin(fn_call, step) = {step}
               /\ fn_return.date = fn_call.start_date + 2 * step
               /\ fn_return.rasi = NewRasi(fn_call, step)
               /\ fn_return.rasi # fn_call.current_rasi
        /\ fn_return.kind = "Long Term" =>
               /\ ChangesWithin(fn_call, 1200) = {}
               /\ fn_return.rasi = fn_call.current_rasi
        /\ (step = 1200 /\ ChangesWithin(fn_call, 1200) = {}) =>
               fn_return.kind \in {"none", "Long Term"}

C27_Witness ==
    /\ TransitCalled
    /\ fn_return.kind = "Long Term"
    /\ fn_call.ephemeris.change_at = 1201

====
